---- MODULE Spec2Model ----
(***************************************************************************)
(* Text-extraction pipeline of LexPlain AI: the PDF chain                  *)
(* (backend/pdf_processor.py), the image chain (backend/ocr_engine.py)     *)
(* and the upload handler of frontend/app.py that dispatches on the file   *)
(* extension and renders the result.                                       *)
(*                                                                         *)
(* A Python string is modelled by its shape: the number of leading         *)
(* whitespace characters, the length of the part between the first and     *)
(* the last non-whitespace character, the number of trailing whitespace    *)
(* characters, whether it contains "processing failed" (case-insensitive), *)
(* and a tag naming the expression of the source that produced it.         *)
(***************************************************************************)
EXTENDS Integers, Sequences, FiniteSets, TLC

\* ------------------------------------------------------------------ bounds
MaxPages == 2          \* pages of an uploaded PDF
FileLen  == 2          \* size of the uploaded byte stream
MaxScanPages == 4      \* pages of a PDF handed to is_pdf_scanned

\* --------------------------------------------------------- program constants
UsabilityThreshold == 50     \* pdf_processor.py:31
ScanThreshold == 100         \* pdf_processor.py:65
SamplePages == 3             \* pdf_processor.py:60

VARIABLES
    pc,              \* position of the upload handler
    file_extension,  \* app.py:241
    credentials,     \* GOOGLE_APPLICATION_CREDENTIALS: unset, set to a missing file, set
    doc,             \* what PyPDF2 finds in the uploaded PDF
    cursor,          \* read position of the uploaded stream
    log,             \* engine calls of this invocation, in order
    ret,             \* value handed back to the upload handler
    ui,              \* what the page shows for this upload
    prompt,          \* document text handed to analyze_risks
    scanned          \* what is_pdf_scanned handed back

vars == <<pc, file_extension, credentials, doc, cursor, log, ret, ui, prompt, scanned>>

\* ------------------------------------------------------------------- strings
Str(tag, lead, body, trail, marker) ==
    [tag |-> tag, lead |-> lead, body |-> body, trail |-> trail, marker |-> marker]

None == Str("None", 0, 0, 0, FALSE)

\* len(s)
PyLen(s) == s.lead + s.body + s.trail

\* s.strip()
Strip(s) == [s EXCEPT !.lead = 0, !.trail = 0]

\* truth value of an Optional[str]
Truthy(s) == s.tag # "None" /\ PyLen(s) > 0

\* a + b, tagged with the expression that builds it
Cat(tag, a, b) ==
    IF a.body = 0 /\ b.body = 0
    THEN Str(tag, PyLen(a) + PyLen(b), 0, 0, a.marker \/ b.marker)
    ELSE IF a.body = 0
    THEN Str(tag, PyLen(a) + b.lead, b.body, b.trail, a.marker \/ b.marker)
    ELSE IF b.body = 0
    THEN Str(tag, a.lead, a.body, a.trail + PyLen(b), a.marker \/ b.marker)
    ELSE Str(tag, a.lead, a.body + a.trail + b.lead + b.body, b.trail,
             a.marker \/ b.marker)

\* "processing failed" in s.lower()
HasMarker(s) == s.marker

Newline == Str("lit", 1, 0, 0, FALSE)

\* the message of an exception, str(e)
ExcText == Str("exc", 0, 20, 0, FALSE)

\* ----------------------------------------------------------- string literals
ScannedPrefix   == Str("lit", 0, 133, 1, FALSE)          \* pdf_processor.py:34
ErrorPdfPrefix  == Str("lit", 0, 18, 1, FALSE)           \* pdf_processor.py:46
OcrAlsoFailed   == Str("lit", 0, 18, 1, FALSE)           \* pdf_processor.py:48
NoTextInImage   == Str("no_text_in_image", 0, 95, 0, FALSE)  \* pdf_processor.py:85
ErrorImgPrefix  == Str("lit", 0, 23, 1, FALSE)           \* pdf_processor.py:88
OcrPlaceholder  == Str("ocr_placeholder", 0, 155, 0, TRUE)   \* ocr_engine.py:75
ImagePlaceholder == Str("image_placeholder", 0, 121, 0, TRUE) \* ocr_engine.py:143
FallbackFailed  == Str("fallback_failed", 0, 192, 0, TRUE)   \* ocr_engine.py:203

\* the strings that report a failure instead of carrying document text
Placeholders == {"ocr_placeholder", "image_placeholder", "fallback_failed",
                 "no_text_in_image", "error_pdf", "error_pdf_ocr",
                 "error_image", "scanned_msg"}

\* ------------------------------------------------------------- environment
\* text a PDF page can carry
PageTexts == { Str("page", 0, 0, 0, FALSE),
               Str("page", 1, 12, 0, FALSE),
               Str("page", 0, 48, 1, FALSE),
               Str("page", 0, 2000, 0, FALSE) }

\* text the Document AI service can answer with (document.text)
CloudTexts == { Str("cloud", 0, 0, 0, FALSE),
                Str("cloud", 2, 0, 0, FALSE),
                Str("cloud", 0, 10, 0, FALSE),
                Str("cloud", 0, 340, 1, FALSE),
                Str("cloud", 0, 340, 0, TRUE) }

\* text pytesseract.image_to_string can answer with
LocalTexts == { Str("local", 0, 0, 0, FALSE),
                Str("local", 2, 0, 0, FALSE),
                Str("local", 0, 10, 1, FALSE),
                Str("local", 1, 340, 1, FALSE) }

Extensions == {"pdf", "png", "jpg", "jpeg", "txt"}
Supported  == {"pdf", "png", "jpg", "jpeg"}

Credentials == {"unset", "missing_file", "set"}

PageSeqs == UNION { [1..n -> PageTexts] : n \in 0..MaxPages }

\* an uploaded PDF: its pages, and the page at which PyPDF2 raises
\* (0: PdfReader itself raises; Len(pages)+1: nothing raises)
Docs == UNION { { [pages |-> p, failAt |-> f] : f \in 0..(Len(p) + 1) } : p \in PageSeqs }

NoDoc == [pages |-> <<>>, failAt |-> 0]

Readable(d) == d.failAt > Len(d.pages)

\* how one call of the Document AI client ends
CloudOutcomes ==
    { [k |-> "raise_init", text |-> None], [k |-> "raise_call", text |-> None] }
    \cup { [k |-> "text", text |-> t] : t \in CloudTexts }

\* how one run of PIL + pytesseract ends
LocalOutcomes ==
    { [k |-> "raise_decode", text |-> None], [k |-> "raise_ocr", text |-> None] }
    \cup { [k |-> "text", text |-> t] : t \in LocalTexts }

\* position recorded for a call that never read the stream
NoRead == 0 - 1

Entry(engine, status, text, pos, remote) ==
    [engine |-> engine, status |-> status, text |-> text, pos |-> pos, remote |-> remote]

NoRet == [kind |-> "none", text |-> None, used_ocr |-> FALSE]
Value(text, used_ocr) == [kind |-> "value", text |-> text, used_ocr |-> used_ocr]
Raised == [kind |-> "raised", text |-> None, used_ocr |-> FALSE]

\* ------------------------------------------------ backend/pdf_processor.py
\* text = ""; for page in pdf_reader.pages: text += page.extract_text() + "\n"
RECURSIVE JoinPages(_)
JoinPages(pages) ==
    IF pages = <<>> THEN Str("native", 0, 0, 0, FALSE)
    ELSE Cat("native",
             JoinPages(SubSeq(pages, 1, Len(pages) - 1)),
             Cat("native", pages[Len(pages)], Newline))

\* the check for meaningful text and the two returns of the try block
PdfNativeReturn(text) ==
    IF PyLen(Strip(text)) < UsabilityThreshold
    THEN Value(Cat("scanned_msg", ScannedPrefix, text), FALSE)
    ELSE Value(text, FALSE)

\* variant: the exception of PyPDF2 is not caught
PdfNativeRaisePropagates == [next |-> "done", ret |-> Raised]

\* variant: the handler tries PyPDF2 once more
PdfNativeRetries == [next |-> "pdf_native", ret |-> NoRet]

\* except Exception as e: the handler takes over and tries OCR
PdfOnNativeRaise == [next |-> "pdf_ocr", ret |-> NoRet]

\* variant: the error of the handler is flagged as OCR too
PdfOcrReturnAlwaysOcr(r) ==
    IF r.exc
    THEN Value(Cat("error_pdf_ocr", Cat("lit", ErrorPdfPrefix, ExcText),
                   Cat("lit", OcrAlsoFailed, ExcText)), FALSE)
    ELSE IF Truthy(r.val)
    THEN Value(r.val, TRUE)
    ELSE Value(Cat("error_pdf", ErrorPdfPrefix, ExcText), TRUE)

\* the returns of the handler, given how extract_text_with_ocr ended
PdfOcrReturn(r) ==
    IF r.exc
    THEN Value(Cat("error_pdf_ocr", Cat("lit", ErrorPdfPrefix, ExcText),
                   Cat("lit", OcrAlsoFailed, ExcText)), FALSE)
    ELSE IF Truthy(r.val)
    THEN Value(r.val, TRUE)
    ELSE Value(Cat("error_pdf", ErrorPdfPrefix, ExcText), FALSE)

NoScan == [kind |-> "none", val |-> FALSE]
ScanValue(b) == [kind |-> "value", val |-> b]

Min(a, b) == IF a < b THEN a ELSE b

\* total_text = ""; for each sampled page: total_text += page_text
RECURSIVE ConcatPages(_)
ConcatPages(pages) ==
    IF pages = <<>> THEN Str("sampled", 0, 0, 0, FALSE)
    ELSE Cat("sampled", ConcatPages(SubSeq(pages, 1, Len(pages) - 1)), pages[Len(pages)])

ScanRaised == [kind |-> "raised", val |-> FALSE]

\* variant: an exception of PyPDF2 is not caught
is_pdf_scanned_propagates(d) ==
    IF d.failAt <= Min(SamplePages, Len(d.pages))
    THEN ScanRaised
    ELSE ScanValue(PyLen(Strip(ConcatPages(
             SubSeq(d.pages, 1, Min(SamplePages, Len(d.pages)))))) < ScanThreshold)

\* variant: every page is sampled
is_pdf_scanned_all_pages(d) ==
    IF d.failAt <= Len(d.pages)
    THEN ScanValue(TRUE)
    ELSE ScanValue(PyLen(Strip(ConcatPages(d.pages))) < ScanThreshold)

\* is_pdf_scanned: the first pages are read; any exception means scanned
is_pdf_scanned(d) ==
    IF d.failAt <= Min(SamplePages, Len(d.pages))
    THEN ScanValue(TRUE)
    ELSE ScanValue(PyLen(Strip(ConcatPages(
             SubSeq(d.pages, 1, Min(SamplePages, Len(d.pages)))))) < ScanThreshold)

\* extract_text_from_image_file, given how the fallback chain ended
ImageFileReturn(r) ==
    IF r.exc
    THEN Value(Cat("error_image", ErrorImgPrefix, ExcText), TRUE)
    ELSE IF Truthy(r.val)
    THEN Value(r.val, TRUE)
    ELSE Value(NoTextInImage, TRUE)

\* -------------------------------------------------- backend/ocr_engine.py
\* the result of one engine call: the value returned (or exc), the stream
\* position it leaves, and the entry it adds to the call log
Call(val, exc, cur, entry) == [val |-> val, exc |-> exc, cursor |-> cur, entry |-> entry]

\* variant: the text is tested without strip()
OcrTextRaw(text) == IF Truthy(text) THEN text ELSE None

\* if text and len(text.strip()) > 0: return text, else None
OcrText(text) == IF Truthy(text) /\ PyLen(Strip(text)) > 0 THEN text ELSE None

\* variant: the credential check is missing
DocumentAINoCheck(cred, o, cur, placeholder) ==
    IF o.k = "raise_init" \/ cred = "missing_file"
    THEN Call(placeholder, FALSE, cur, Entry("cloud", "raised", None, NoRead, FALSE))
    ELSE IF o.k = "raise_call"
    THEN Call(placeholder, FALSE, 0, Entry("cloud", "raised", None, cur, TRUE))
    ELSE Call(OcrText(o.text), FALSE, 0, Entry("cloud", "returned", o.text, cur, TRUE))

\* the body shared by the two Document AI functions: credential check,
\* client, read of the stream, seek(0), remote call, catch-all handler
DocumentAI(cred, o, cur, placeholder) ==
    IF cred = "unset"
    THEN Call(None, FALSE, cur, Entry("cloud", "skipped", None, NoRead, FALSE))
    ELSE IF o.k = "raise_init" \/ cred = "missing_file"
    THEN Call(placeholder, FALSE, cur, Entry("cloud", "raised", None, NoRead, FALSE))
    ELSE IF o.k = "raise_call"
    THEN Call(placeholder, FALSE, 0, Entry("cloud", "raised", None, cur, TRUE))
    ELSE Call(OcrText(o.text), FALSE, 0, Entry("cloud", "returned", o.text, cur, TRUE))

extract_text_with_ocr(cred, o, cur) == DocumentAI(cred, o, cur, OcrPlaceholder)

extract_text_from_image(cred, o, cur) == DocumentAI(cred, o, cur, ImagePlaceholder)

\* variant: the file pointer is not reset
SeekSkipped(cur) == cur

\* image_file.seek(0)
SeekStart(cur) == 0

\* seek(0), Image.open, image_to_string; every exception gives None
extract_text_with_pytesseract(o, cur, after) ==
    IF o.k = "text"
    THEN Call(IF Truthy(o.text) /\ PyLen(Strip(o.text)) > 0 THEN Strip(o.text) ELSE None,
              FALSE, after, Entry("local", "returned", o.text, SeekStart(cur), FALSE))
    ELSE Call(None, FALSE, after, Entry("local", "raised", None, SeekStart(cur), FALSE))

\* if credentials_path and os.path.exists(credentials_path)
CloudGate(cred) == cred = "set"

\* variant: the failure text is not tested
CloudAcceptedAnyText(result) == Truthy(result)

\* variant: the test for the failure text is inverted
CloudAcceptedInverted(result) == Truthy(result) /\ HasMarker(result)

\* if result and "processing failed" not in result.lower()
CloudAccepted(result) == Truthy(result) /\ ~HasMarker(result)

\* variant: None is handed back when pytesseract gave nothing
FallbackReturnsNone(pytesseract_result) == pytesseract_result

\* the last lines of the fallback chain
FallbackReturn(pytesseract_result) ==
    IF Truthy(pytesseract_result) THEN pytesseract_result ELSE FallbackFailed

\* ------------------------------------------------------- frontend/app.py
\* variant: the two branches are swapped
DispatchSwapped(ext) == IF ext = "pdf" THEN "img_cloud" ELSE "pdf_native"

\* if file_extension == 'pdf': ... else: ...
Dispatch(ext) == IF ext = "pdf" THEN "pdf_native" ELSE "img_cloud"

\* if document_text: ... else: st.error(...)
Shown(r) ==
    IF r.kind = "raised" THEN "crashed"
    ELSE IF Truthy(r.text) THEN "loaded" ELSE "error"

Init ==
    /\ pc = "idle"
    /\ file_extension = "pdf"
    /\ credentials = "unset"
    /\ doc = NoDoc
    /\ cursor = 0
    /\ log = <<>>
    /\ ret = NoRet
    /\ ui = "none"
    /\ prompt = None
    /\ scanned = NoScan

\* a file is uploaded and the handler dispatches on its extension; the type
\* list of the upload widget is enforced outside the handler, which takes the
\* extension from whatever file name arrives
Upload ==
    /\ pc = "idle"
    /\ \E ext \in Extensions, c \in Credentials :
         /\ file_extension' = ext
         /\ credentials' = c
         /\ doc' \in (IF ext = "pdf" THEN Docs ELSE {NoDoc})
         /\ pc' = Dispatch(ext)
    /\ cursor' = 0
    /\ log' = <<>>
    /\ ret' = NoRet
    /\ ui' = "none"
    /\ prompt' = None
    /\ scanned' = NoScan

\* extract_text_from_pdf, the try block: PyPDF2 reads every page
PdfNative ==
    /\ pc = "pdf_native"
    /\ \E c \in 0..FileLen :
         /\ cursor' = c
         /\ IF Readable(doc)
            THEN /\ log' = Append(log, Entry("native", "returned", JoinPages(doc.pages), 0, FALSE))
                 /\ ret' = PdfNativeReturn(JoinPages(doc.pages))
                 /\ pc' = "done"
            ELSE /\ log' = Append(log, Entry("native", "raised", None, 0, FALSE))
                 /\ ret' = PdfOnNativeRaise.ret
                 /\ pc' = PdfOnNativeRaise.next
    /\ UNCHANGED <<file_extension, credentials, doc, ui, prompt, scanned>>

\* extract_text_from_pdf, the handler: extract_text_with_ocr on the same stream
PdfOcr ==
    /\ pc = "pdf_ocr"
    /\ \E o \in CloudOutcomes :
         LET r == extract_text_with_ocr(credentials, o, cursor) IN
         /\ log' = Append(log, r.entry)
         /\ cursor' = r.cursor
         /\ ret' = PdfOcrReturn(r)
    /\ pc' = "done"
    /\ UNCHANGED <<file_extension, credentials, doc, ui, prompt, scanned>>

\* extract_text_from_image_with_fallback, first half: Google Document AI
ImgCloud ==
    /\ pc = "img_cloud"
    /\ IF CloudGate(credentials)
       THEN \E o \in CloudOutcomes :
              LET r == extract_text_from_image(credentials, o, cursor) IN
              /\ log' = Append(log, r.entry)
              /\ cursor' = r.cursor
              /\ IF ~r.exc /\ CloudAccepted(r.val)
                 THEN /\ ret' = ImageFileReturn([val |-> r.val, exc |-> FALSE])
                      /\ pc' = "done"
                 ELSE /\ ret' = NoRet
                      /\ pc' = "img_local"
       ELSE /\ log' = Append(log, Entry("cloud", "skipped", None, NoRead, FALSE))
            /\ cursor' = cursor
            /\ ret' = NoRet
            /\ pc' = "img_local"
    /\ UNCHANGED <<file_extension, credentials, doc, ui, prompt, scanned>>

\* variant: pytesseract is tried a second time when it gave nothing
ImgLocalRetries ==
    /\ pc = "img_local"
    /\ \E o \in LocalOutcomes, after \in 0..FileLen :
         LET r == extract_text_with_pytesseract(o, cursor, after) IN
         /\ log' = Append(log, r.entry)
         /\ cursor' = r.cursor
         /\ ret' = ImageFileReturn([val |-> IF r.exc THEN None ELSE FallbackReturn(r.val),
                                    exc |-> r.exc])
         /\ pc' = IF r.val = None /\ Len(log) < 2 THEN "img_local" ELSE "done"
    /\ UNCHANGED <<file_extension, credentials, doc, ui, prompt, scanned>>

\* extract_text_from_image_with_fallback, second half: pytesseract
ImgLocal ==
    /\ pc = "img_local"
    /\ \E o \in LocalOutcomes, after \in 0..FileLen :
         LET r == extract_text_with_pytesseract(o, cursor, after) IN
         /\ log' = Append(log, r.entry)
         /\ cursor' = r.cursor
         /\ ret' = ImageFileReturn([val |-> IF r.exc THEN None ELSE FallbackReturn(r.val),
                                    exc |-> r.exc])
    /\ pc' = "done"
    /\ UNCHANGED <<file_extension, credentials, doc, ui, prompt, scanned>>

\* the handler renders the result; a loaded document goes to analyze_risks
Render ==
    /\ pc = "done"
    /\ ui' = Shown(ret)
    /\ prompt' = IF Shown(ret) = "loaded" THEN ret.text ELSE None
    /\ pc' = "rendered"
    /\ UNCHANGED <<file_extension, credentials, doc, cursor, log, ret, scanned>>

\* the user removes the file; the next run of the script starts afresh
Clear ==
    /\ pc = "rendered"
    /\ pc' = "idle"
    /\ file_extension' = "pdf"
    /\ credentials' = "unset"
    /\ doc' = NoDoc
    /\ cursor' = 0
    /\ log' = <<>>
    /\ ret' = NoRet
    /\ ui' = "none"
    /\ prompt' = None
    /\ scanned' = NoScan

\* a widget is used: the script runs again and extracts the same upload
\* again; the stream is the same object or a fresh one
Rerun ==
    /\ pc = "rendered"
    /\ pc' = Dispatch(file_extension)
    /\ cursor' \in {0, cursor}
    /\ log' = <<>>
    /\ ret' = NoRet
    /\ ui' = "none"
    /\ prompt' = None
    /\ UNCHANGED <<file_extension, credentials, doc, scanned>>

Next == Upload \/ PdfNative \/ PdfOcr \/ ImgCloud \/ ImgLocal \/ Render \/ Clear \/ Rerun

Spec == Init /\ [][Next]_vars

\* the engine calls are synchronous and blocking: each returns or raises
FairSpec ==
    /\ Spec
    /\ WF_vars(PdfNative)
    /\ WF_vars(PdfOcr)
    /\ WF_vars(ImgCloud)
    /\ WF_vars(ImgLocal)

\* ---------------------------------------------- is_pdf_scanned on its own
ScanPageSeqs == UNION { [1..n -> PageTexts] : n \in 0..MaxScanPages }

ScanDocs ==
    UNION { { [pages |-> p, failAt |-> f] : f \in 0..(Len(p) + 1) } : p \in ScanPageSeqs }

InitScan ==
    /\ pc = "scan"
    /\ file_extension = "pdf"
    /\ credentials = "unset"
    /\ doc \in ScanDocs
    /\ cursor = 0
    /\ log = <<>>
    /\ ret = NoRet
    /\ ui = "none"
    /\ prompt = None
    /\ scanned = NoScan

\* one call of is_pdf_scanned on the document
IsPdfScanned ==
    /\ pc = "scan"
    /\ scanned' = is_pdf_scanned(doc)
    /\ cursor' \in 0..FileLen
    /\ pc' = "scan_done"
    /\ UNCHANGED <<file_extension, credentials, doc, log, ret, ui, prompt>>

NextScan == IsPdfScanned

ScanSpec == InitScan /\ [][NextScan]_vars

\* ------------------------------------------------- main.py, standalone app
EmptyStr == Str("lit", 0, 0, 0, FALSE)

\* variant: the handler hands back the error message
main_extract_returns_message(d) ==
    IF Readable(d)
    THEN [text |-> JoinPages(d.pages), error |-> FALSE]
    ELSE [text |-> Cat("error_pdf", ErrorPdfPrefix, ExcText), error |-> TRUE]

\* extract_text_from_pdf of main.py: the joined page texts, or st.error and ""
main_extract_text_from_pdf(d) ==
    IF Readable(d)
    THEN [text |-> JoinPages(d.pages), error |-> FALSE]
    ELSE [text |-> EmptyStr, error |-> TRUE]

InitMain ==
    /\ pc = "m_idle"
    /\ file_extension = "pdf"
    /\ credentials = "unset"
    /\ doc = NoDoc
    /\ cursor = 0
    /\ log = <<>>
    /\ ret = NoRet
    /\ ui = "none"
    /\ prompt = None
    /\ scanned = NoScan

\* a PDF is uploaded (the widget takes PDFs only)
MainUpload ==
    /\ pc = "m_idle"
    /\ doc' \in Docs
    /\ pc' = "m_extract"
    /\ UNCHANGED <<file_extension, credentials, cursor, log, ret, ui, prompt, scanned>>

\* document_text = extract_text_from_pdf(uploaded_file)
MainExtract ==
    /\ pc = "m_extract"
    /\ LET r == main_extract_text_from_pdf(doc) IN
         /\ ret' = Value(r.text, FALSE)
         /\ ui' = IF r.error THEN "error" ELSE "none"
         /\ log' = Append(log, Entry("native", IF r.error THEN "raised" ELSE "returned",
                                     IF r.error THEN None ELSE r.text, 0, FALSE))
    /\ cursor' \in 0..FileLen
    /\ pc' = "m_done"
    /\ UNCHANGED <<file_extension, credentials, doc, prompt, scanned>>

\* if document_text: the risk analysis calls the language model; else st.error
MainRender ==
    /\ pc = "m_done"
    /\ IF Truthy(ret.text)
       THEN ui' = "loaded" /\ prompt' = ret.text
       ELSE ui' = "error" /\ prompt' = None
    /\ pc' = "m_rendered"
    /\ UNCHANGED <<file_extension, credentials, doc, cursor, log, ret, scanned>>

\* a widget is used: the script runs again on the same upload
MainRerun ==
    /\ pc = "m_rendered"
    /\ pc' = "m_extract"
    /\ cursor' \in {0, cursor}
    /\ log' = <<>>
    /\ ret' = NoRet
    /\ ui' = "none"
    /\ prompt' = None
    /\ UNCHANGED <<file_extension, credentials, doc, scanned>>

\* the user removes the file
MainClear ==
    /\ pc = "m_rendered"
    /\ pc' = "m_idle"
    /\ doc' = NoDoc
    /\ cursor' = 0
    /\ log' = <<>>
    /\ ret' = NoRet
    /\ ui' = "none"
    /\ prompt' = None
    /\ UNCHANGED <<file_extension, credentials, scanned>>

NextMain == MainUpload \/ MainExtract \/ MainRender \/ MainRerun \/ MainClear

MainSpec == InitMain /\ [][NextMain]_vars

\* ------------------------------------------------------------- properties
Finished == pc \in {"done", "rendered"}

IsPdf == file_extension = "pdf"

Has(engine) == \E i \in DOMAIN log : log[i].engine = engine

\* the engines of the chain the spec gives a file type
Chain(ext) == IF ext = "pdf" THEN {"native", "cloud"} ELSE {"cloud", "local"}

\* an attempt that gave no usable text: skipped, raised, empty or too short
Unusable(e) == e.status # "returned" \/ e.text.body < UsabilityThreshold

\* every engine of the chain was tried or skipped, and none gave usable text
Exhausted ==
    /\ Finished
    /\ \A g \in Chain(file_extension) : Has(g)
    /\ \A i \in DOMAIN log : Unusable(log[i])

\* the engines a failure text mentions
Names(tag) ==
    CASE tag = "fallback_failed"   -> {"cloud", "local"}
      [] tag = "error_pdf_ocr"     -> {"native", "cloud"}
      [] tag = "error_pdf"         -> {"native"}
      [] tag = "ocr_placeholder"   -> {"cloud"}
      [] tag = "image_placeholder" -> {"cloud"}
      [] OTHER                     -> {}

\* C1: when the first engine gives usable text no later engine is called:
\* a PDF whose native text has at least 50 trimmed characters never reaches
\* extract_text_with_ocr, and an image whose cloud text is accepted (non-empty
\* after trimming, without the failure text) never reaches pytesseract.
C1_FirstUsableEndsChain ==
    /\ (/\ log # <<>>
        /\ log[1].engine = "native"
        /\ log[1].status = "returned"
        /\ log[1].text.body >= UsabilityThreshold) => Len(log) = 1
    /\ (/\ log # <<>>
        /\ ~IsPdf
        /\ log[1].engine = "cloud"
        /\ log[1].status = "returned"
        /\ log[1].text.body > 0
        /\ ~log[1].text.marker) => Len(log) = 1

C1_Witness ==
    /\ Finished
    /\ Len(log) = 1
    /\ log[1].status = "returned"
    /\ log[1].text.body >= UsabilityThreshold
    /\ ~log[1].text.marker
    /\ ret.text.tag \in {"native", "cloud"}

\* C2: when the first engine gives text below the threshold, the second
\* engine of the chain is called before a result is returned.
C2_SubThresholdCallsSecond ==
    (/\ Finished
     /\ log[1].status = "returned"
     /\ log[1].text.body < UsabilityThreshold) => Len(log) >= 2

\* C3: every engine that reads the stream starts reading at position 0.
C3_ReadsFromStart ==
    \A i \in DOMAIN log : log[i].pos # NoRead => log[i].pos = 0

\* C4: when the chain is exhausted the caller gets a failure it can tell
\* from a success, and the text names every engine tried or skipped.
C4_ExhaustedIsFailure ==
    Exhausted =>
        /\ Shown(ret) # "loaded"
        /\ \A i \in DOMAIN log : log[i].engine \in Names(ret.text.tag)

\* C5: a file type outside {pdf, png, jpg, jpeg} reaches no chain and no engine.
C5_UnsupportedReachesNoEngine ==
    (pc # "idle" /\ file_extension \notin Supported) =>
        /\ log = <<>>
        /\ pc \notin {"pdf_native", "pdf_ocr", "img_cloud", "img_local"}

\* C6: when the cloud engine raised, the caller never gets a result marked
\* as produced by OCR whose text is a failure placeholder.
C6_RaisedEngineIsNoProducer ==
    (/\ Finished
     /\ \E i \in DOMAIN log : log[i].engine = "cloud" /\ log[i].status = "raised")
    => ~(ret.used_ocr /\ ret.text.tag \in Placeholders)

\* C7: text of any engine is returned as the result only if its trimmed
\* length is at least the one usability threshold.
C7_OneThreshold ==
    (Finished /\ ret.text.tag \in {"native", "cloud", "local"})
    => ret.text.body >= UsabilityThreshold

\* C8: the two entry points always hand back a (text, flag) value; no
\* exception of an engine reaches the caller.
C8_NoExceptionEscapes ==
    /\ ret.kind # "raised"
    /\ Finished => ret.kind = "value"
    /\ ui # "crashed"

C8_Witness ==
    /\ Finished
    /\ ret.kind = "value"
    /\ \E i \in DOMAIN log : log[i].status = "raised"

\* C9: without a configured credential the cloud engine is skipped, makes no
\* remote call and raises nothing; on the image path pytesseract runs next.
C9_NoCredentialSkipsCloud ==
    credentials = "unset" =>
        /\ \A i \in DOMAIN log :
              log[i].engine = "cloud" => log[i].status = "skipped" /\ ~log[i].remote
        /\ ret.kind # "raised"
        /\ (~IsPdf /\ Has("cloud")) => (pc = "img_local" \/ log[2].engine = "local")

C9_Witness ==
    /\ Finished
    /\ credentials = "unset"
    /\ ~IsPdf
    /\ Len(log) = 2
    /\ log[1].engine = "cloud" /\ log[1].status = "skipped"
    /\ log[2].engine = "local"

\* C10: on the PDF path the cloud engine is called only after the native
\* extractor was tried, and pytesseract is never called.
C10_PdfOrder ==
    IsPdf =>
        /\ \A i \in DOMAIN log :
              log[i].engine = "cloud" => (i = 2 /\ log[1].engine = "native")
        /\ ~Has("local")
        /\ pc \in {"pdf_native", "pdf_ocr", "done", "rendered", "idle"}

C10_Witness ==
    /\ Finished
    /\ IsPdf
    /\ Len(log) = 2
    /\ log[1].engine = "native"
    /\ log[2].engine = "cloud"

\* the number of calls of an engine in this invocation
Calls(engine) == Cardinality({ i \in DOMAIN log : log[i].engine = engine })

\* C11: on the image path pytesseract is called only after the cloud engine
\* was skipped or was tried without an accepted result, and the native PDF
\* extractor is never called.
C11_ImageOrder ==
    ~IsPdf =>
        /\ \A i \in DOMAIN log :
              log[i].engine = "local" =>
                  /\ i = 2
                  /\ log[1].engine = "cloud"
                  /\ \/ log[1].status \in {"skipped", "raised"}
                     \/ log[1].text.body = 0
                     \/ log[1].text.marker
        /\ ~Has("native")
        /\ pc \in {"img_cloud", "img_local", "done", "rendered", "idle"}

C11_Witness ==
    /\ Finished
    /\ ~IsPdf
    /\ Len(log) = 2
    /\ log[1].engine = "cloud" /\ log[1].status = "returned"
    /\ log[2].engine = "local" /\ log[2].status = "returned"

\* C12: within one invocation no engine is called more than once.
C12_NoRetry ==
    \A g \in {"native", "cloud", "local"} : Calls(g) <= 1

C12_Witness ==
    /\ Finished
    /\ Len(log) = 2
    /\ log[1].status = "raised"
    /\ log[2].status = "raised"

InChain == pc \in {"pdf_native", "pdf_ocr", "img_cloud", "img_local"}

C14_FlagNamesProducer ==
    (Finished /\ Shown(ret) = "loaded") =>
        /\ ret.used_ocr => ret.text.tag \in {"cloud", "local"}
        /\ ret.text.tag = "native" => ~ret.used_ocr

\* the cloud engine was called with the credential present and answered with
\* an empty or whitespace-only text
CloudGaveNothing ==
    /\ ~IsPdf
    /\ credentials = "set"
    /\ log # <<>>
    /\ log[1].engine = "cloud"
    /\ log[1].status = "returned"
    /\ log[1].text.body = 0

\* C15: on the image path an empty cloud answer is followed by pytesseract,
\* and non-empty pytesseract text then is the text of a successful result.
C15_EmptyCloudFallsToLocal ==
    CloudGaveNothing =>
        /\ pc = "img_local" \/ (Len(log) = 2 /\ log[2].engine = "local")
        /\ (Finished /\ log[2].status = "returned" /\ log[2].text.body > 0) =>
               /\ ret = Value(Strip(log[2].text), TRUE)
               /\ Shown(ret) = "loaded"

C15_Witness ==
    /\ CloudGaveNothing
    /\ Finished
    /\ log[2].status = "returned"
    /\ log[2].text.body = 340
    /\ ret.text.tag = "local"

\* C16: a PDF with native text below the threshold and no credential gives
\* a result with the cloud engine recorded as skipped, the short native text
\* as its text and its boolean set.
C16_ScannedPdfWithoutCredential ==
    (/\ Finished
     /\ IsPdf
     /\ credentials = "unset"
     /\ log[1].engine = "native"
     /\ log[1].status = "returned"
     /\ log[1].text.body < UsabilityThreshold) =>
        /\ \E i \in DOMAIN log : log[i].engine = "cloud" /\ log[i].status = "skipped"
        /\ ret.text = log[1].text
        /\ ret.used_ocr

\* C17: after an exhausted chain the page shows the failure and no failure
\* text is handed to the prompt layer.
C17_FailureIsDisplayOnly ==
    (pc = "rendered" /\ Exhausted) =>
        /\ ui = "error"
        /\ prompt = None

\* what the caller of the image chain gets for an image that decodes but
\* carries no text
NoTextResult ==
    ImageFileReturn([val |-> FallbackReturn(extract_text_with_pytesseract(
                                [k |-> "text", text |-> Str("local", 0, 0, 0, FALSE)], 0, 0).val),
                     exc |-> FALSE])

\* C18: bytes that pytesseract cannot decode give an outcome that differs
\* from the outcome of an image that decodes but carries no text.
C18_DecodeErrorIsClassified ==
    (/\ Finished
     /\ \E i \in DOMAIN log : log[i].engine = "local" /\ log[i].status = "raised")
    => ret # NoTextResult

\* the pages of d that is_pdf_scanned is to look at
FirstPages(d) == SubSeq(d.pages, 1, Min(SamplePages, Len(d.pages)))

\* the pages that carry a non-whitespace character
Inked(pages) == { i \in DOMAIN pages : pages[i].body > 0 }

RECURSIVE RawLen(_, _, _)
RawLen(pages, a, b) == IF a > b THEN 0 ELSE PyLen(pages[a]) + RawLen(pages, a + 1, b)

\* length of the pages' text from the first to the last non-whitespace character
TrimmedLen(pages) ==
    IF Inked(pages) = {} THEN 0
    ELSE LET f == CHOOSE i \in Inked(pages) : \A j \in Inked(pages) : i <= j
             l == CHOOSE i \in Inked(pages) : \A j \in Inked(pages) : i >= j
         IN  IF f = l THEN pages[f].body
             ELSE pages[f].body + pages[f].trail + RawLen(pages, f + 1, l - 1)
                  + pages[l].lead + pages[l].body

\* C19: a PDF whose sampled pages can be read is classified scanned exactly
\* when the text of its first min(3, page count) pages, trimmed, is shorter
\* than 100; later pages play no part.
C19_ScannedIffShortSample ==
    (scanned.kind = "value" /\ doc.failAt > Len(FirstPages(doc))) =>
        (scanned.val <=> TrimmedLen(FirstPages(doc)) < ScanThreshold)

C19_Witness ==
    /\ scanned = ScanValue(TRUE)
    /\ Len(doc.pages) = 4
    /\ doc.failAt > 4
    /\ doc.pages[1].body = 48
    /\ doc.pages[2].body = 48
    /\ doc.pages[4].body = 2000

\* C20: on the image path pytesseract starts reading at position 0,
\* whatever the cloud attempt before it did to the stream.
C20_LocalReadsFromStart ==
    \A i \in DOMAIN log : log[i].engine = "local" => log[i].pos = 0

C20_Witness ==
    /\ Finished
    /\ ~IsPdf
    /\ Len(log) = 2
    /\ log[1].status = "raised"
    /\ log[1].remote
    /\ log[2].engine = "local"
    /\ log[2].pos = 0

\* the cloud attempt gave nothing the chain may hand back: an exception
\* (the placeholder), an empty text, or a text with "processing failed"
CloudRejectable ==
    /\ ~IsPdf
    /\ log # <<>>
    /\ log[1].engine = "cloud"
    /\ \/ log[1].status = "raised"
       \/ log[1].status = "returned" /\ (log[1].text.body = 0 \/ log[1].text.marker)

\* C21: on the image path a cloud value is handed back only if it is
\* non-empty and free of "processing failed"; every other cloud outcome is
\* followed by pytesseract and is never the returned text.
C21_CloudResultFilter ==
    /\ (~IsPdf /\ Finished /\ ret.text.tag \in {"cloud", "image_placeholder"}) =>
           /\ ret.text.tag = "cloud"
           /\ ret.text.body > 0
           /\ ~ret.text.marker
    /\ CloudRejectable =>
           /\ pc = "img_local" \/ (Len(log) = 2 /\ log[2].engine = "local")
           /\ Finished => ret.text.tag \notin {"cloud", "image_placeholder"}

C21_Witness ==
    /\ CloudRejectable
    /\ Finished
    /\ log[1].status = "returned"
    /\ log[1].text.marker
    /\ log[2].engine = "local"
    /\ ret.text.tag = "local"

SampleUnreadable(d) ==
    d.failAt = 0 \/ (d.failAt <= Len(d.pages) /\ d.failAt <= SamplePages)

\* C24: is_pdf_scanned never raises, and hands back True whenever the PDF
\* cannot be opened or a sampled page cannot be read.
C24_UnreadableMeansScanned ==
    /\ scanned.kind # "raised"
    /\ pc = "scan_done" =>
           /\ scanned.kind = "value"
           /\ SampleUnreadable(doc) => scanned.val

C24_Witness ==
    /\ pc = "scan_done"
    /\ Len(doc.pages) = 4
    /\ doc.failAt = 2
    /\ doc.pages[1].body = 2000
    /\ scanned = ScanValue(TRUE)

\* C25: in the standalone app the language model is called only with a
\* non-empty extracted text; when reading the PDF raises the text is "",
\* the page shows the error and the language model is not called.
C25_ModelCalledOnlyWithText ==
    /\ prompt # None => (Truthy(ret.text) /\ prompt = ret.text /\ Readable(doc))
    /\ (pc \in {"m_done", "m_rendered"} /\ ~Readable(doc)) =>
           /\ ret.text = EmptyStr
           /\ ui = "error"
           /\ prompt = None

C25_Witness ==
    /\ pc = "m_rendered"
    /\ Len(doc.pages) = 2
    /\ doc.failAt = 2
    /\ ui = "error"
    /\ prompt = None
====
